---- MODULE Spec2Model ----
(***************************************************************************)
(* Model of k8s-csi-restarter (src/src/main.rs): the /delete handler lists *)
(* all PVCs, keeps those of a configured storage class, lists all Running  *)
(* Pods, keeps those mounting one of these PVCs, groups them by namespace  *)
(* and deletes them one by one.                                            *)
(*                                                                         *)
(* Rust Option values are sequences of length at most one: None is <<>>,   *)
(* Some(x) is <<x>>.  Strings are TLA+ strings, format!("{}/{}", a, b) is  *)
(* string concatenation.                                                   *)
(***************************************************************************)
EXTENDS Integers, Sequences, FiniteSets, TLC

VARIABLES
    settings,               \* Settings: storage_class, delete_uncontrolled, dry_run
    cluster_pvcs,           \* the cluster: PVC objects in listing order
    cluster_pods,           \* the cluster: Pod objects in listing order
    pc,                     \* per request: position of the handler
    sc_pvc_paths,           \* per request: local of get_pod_names_by_storage_class
    pods,                   \* per request: the Pod listing the request received
    pvc_pods,               \* per request: Vec<ObjectPath> selected
    pvc_pods_by_namespace,  \* per request: HashMap<String, Vec<String>>
    todo,                   \* per request: what the nested for loops have left
    calls,                  \* per request: the cluster API calls made so far
    warned,                 \* per request: warn!("Failed to delete ..") was logged
    response                \* per request: HTTP status returned, "none" while running

vars == << settings, cluster_pvcs, cluster_pods, pc, sc_pvc_paths, pods, pvc_pods,
           pvc_pods_by_namespace, todo, calls, warned, response >>

-----------------------------------------------------------------------------
(* Bounds *)

\* Pods in the cluster of the request specifications
NumPods == 3

\* Namespaces the Pods of Spec are spread over
NumNamespaces == 2

\* Longest volume list of a Pod in SpecSelect
MaxVolumes == 2

\* Longest input of the grouping in SpecGroup
MaxSelected == 3

-----------------------------------------------------------------------------
(* Option, Vec *)

None == << >>

Some(x) == << x >>

IsSome(o) == Len(o) = 1

IsNone(o) == Len(o) = 0

Unwrap(o) == o[1]

\* Vec::contains
Contains(vec, x) == \E i \in DOMAIN vec : vec[i] = x

\* Vec::is_empty
IsEmpty(vec) == Len(vec) = 0

SeqsUpTo(S, n) == UNION { [1..k -> S] : k \in 0..n }

\* The orders in which a HashMap may hand out the keys in S
Orders(S) == { o \in [1..Cardinality(S) -> S] : \A i, j \in DOMAIN o : o[i] = o[j] => i = j }

-----------------------------------------------------------------------------
(* get_pod_names_by_storage_class: the PVC filter *)

\* The join key without the namespace
FormatPathNameOnly(namespace, name) == "/" \o name

\* format!("{}/{}", namespace, name)
FormatPath(namespace, name) == namespace \o "/" \o name

\* The closure of the filter_map over the PVC listing
PvcFilterMap(pvc, storage_class) ==
    IF IsNone(pvc.spec) THEN None
    ELSE IF IsNone(Unwrap(pvc.spec).storage_class_name) THEN None
    ELSE IF Contains(storage_class, Unwrap(Unwrap(pvc.spec).storage_class_name))
         THEN IF IsNone(pvc.namespace) THEN None
              ELSE IF IsNone(pvc.name) THEN None
              ELSE Some(FormatPath(Unwrap(pvc.namespace), Unwrap(pvc.name)))
         ELSE None

RECURSIVE ScPvcPaths(_, _)
ScPvcPaths(pvcs, storage_class) ==
    IF pvcs = << >> THEN << >>
    ELSE PvcFilterMap(Head(pvcs), storage_class) \o ScPvcPaths(Tail(pvcs), storage_class)

-----------------------------------------------------------------------------
(* get_pod_names_by_storage_class: the Pod filter *)

\* The for loop over the volumes of a Pod, from volume i on
RECURSIVE VolumeScan(_, _, _, _, _)
VolumeScan(volumes, i, ns, pod_name, paths) ==
    IF i > Len(volumes) THEN None
    ELSE IF IsNone(volumes[i].persistent_volume_claim)
         THEN VolumeScan(volumes, i + 1, ns, pod_name, paths)
    ELSE IF Contains(paths, FormatPath(ns, Unwrap(volumes[i].persistent_volume_claim).claim_name))
         THEN Some([namespace |-> ns, name |-> pod_name])
    ELSE VolumeScan(volumes, i + 1, ns, pod_name, paths)

\* The owner-reference test with the flag inverted
SkipsForOwnerInverted(pod, skip_uncontrolled) ==
    \/ IsNone(pod.owner_references)
    \/ IsEmpty(Unwrap(pod.owner_references)) /\ ~skip_uncontrolled

\* The owner-reference test of the closure: TRUE when the closure returns None there
SkipsForOwner(pod, skip_uncontrolled) ==
    \/ IsNone(pod.owner_references)
    \/ IsEmpty(Unwrap(pod.owner_references)) /\ skip_uncontrolled

\* The closure of the filter_map over the Pod listing
PodFilterMap(pod, paths, skip_uncontrolled) ==
    IF IsNone(pod.namespace) THEN None
    ELSE IF IsNone(pod.name) THEN None
    ELSE IF SkipsForOwner(pod, skip_uncontrolled) THEN None
    ELSE IF IsNone(pod.spec) THEN None
    ELSE IF IsNone(Unwrap(pod.spec).volumes) THEN None
    ELSE VolumeScan(Unwrap(Unwrap(pod.spec).volumes), 1,
                    Unwrap(pod.namespace), Unwrap(pod.name), paths)

RECURSIVE PvcPods(_, _, _)
PvcPods(podlist, paths, skip_uncontrolled) ==
    IF podlist = << >> THEN << >>
    ELSE PodFilterMap(Head(podlist), paths, skip_uncontrolled)
         \o PvcPods(Tail(podlist), paths, skip_uncontrolled)

\* fields("status.phase==Running"): the server filters the listing
RECURSIVE RunningPods(_)
RunningPods(podlist) ==
    IF podlist = << >> THEN << >>
    ELSE (IF Head(podlist).phase = "Running" THEN << Head(podlist) >> ELSE << >>)
         \o RunningPods(Tail(podlist))

-----------------------------------------------------------------------------
(* delete_pods_with_pvc: grouping by namespace *)

\* insert(namespace, vec![name]) in place of the entry API
GroupInsertOverwrite(map, path) ==
    [k \in DOMAIN map \cup {path.namespace} |->
        IF k = path.namespace THEN << path.name >> ELSE map[k]]

\* entry(namespace).and_modify(push name).or_insert(vec![name])
GroupInsert(map, path) ==
    IF path.namespace \in DOMAIN map
    THEN [map EXCEPT ![path.namespace] = Append(@, path.name)]
    ELSE [k \in DOMAIN map \cup {path.namespace} |->
            IF k = path.namespace THEN << path.name >> ELSE map[k]]

EmptyMap == [k \in {} |-> << >>]

RECURSIVE GroupFrom(_, _)
GroupFrom(map, paths) ==
    IF paths = << >> THEN map
    ELSE GroupFrom(GroupInsert(map, Head(paths)), Tail(paths))

GroupByNamespace(paths) == GroupFrom(EmptyMap, paths)

\* The loops returning after the first bucket
FlattenFirstBucket(map, order) ==
    IF order = << >> THEN << >>
    ELSE [i \in 1..Len(map[Head(order)]) |->
            [namespace |-> Head(order), name |-> map[Head(order)][i]]]

\* The nested for loops, unrolled for one iteration order of the map
RECURSIVE Flatten(_, _)
Flatten(map, order) ==
    IF order = << >> THEN << >>
    ELSE [i \in 1..Len(map[Head(order)]) |->
            [namespace |-> Head(order), name |-> map[Head(order)][i]]]
         \o Flatten(map, Tail(order))

-----------------------------------------------------------------------------
(* The cluster API, as the handler sees it *)

\* The requests that may be in flight
Requests == {1, 2}

Call(op, namespace, name, dry_run, result) ==
    [op |-> op, namespace |-> namespace, name |-> name, dry_run |-> dry_run, result |-> result]

\* Api::namespaced(ns) addresses the Pod of that name in that namespace
IsPod(pod, path) == pod.namespace = Some(path.namespace) /\ pod.name = Some(path.name)

PodExists(path) == \E i \in DOMAIN cluster_pods : IsPod(cluster_pods[i], path)

WithoutPod(podlist, path) ==
    LET Other(pod) == ~IsPod(pod, path) IN SelectSeq(podlist, Other)

\* DeleteParams { dry_run, ..Default::default() }: a dry run persists nothing
AfterDelete(podlist, path, dry_run) ==
    IF dry_run THEN podlist ELSE WithoutPod(podlist, path)

-----------------------------------------------------------------------------
(* The handler delete_pods_with_pvc, one action per cluster API call and outcome *)

\* The error logged and the handler going on
FailSwallowed(p, call) ==
    /\ calls' = [calls EXCEPT ![p] = Append(@, call)]
    /\ UNCHANGED << pc, response >>

\* Err(e)? anywhere in the handler: AppError::into_response
Fail(p, call) ==
    /\ calls' = [calls EXCEPT ![p] = Append(@, call)]
    /\ pc' = [pc EXCEPT ![p] = "done"]
    /\ response' = [response EXCEPT ![p] = "500"]

\* pvcs_api.list(..).await? succeeds; sc_pvc_paths is built
ListPvcsOk(p) ==
    /\ pc[p] = "list_pvcs"
    /\ sc_pvc_paths' = [sc_pvc_paths EXCEPT ![p] = ScPvcPaths(cluster_pvcs, settings.storage_class)]
    /\ calls' = [calls EXCEPT ![p] = Append(@, Call("list_pvcs", "", "", FALSE, "ok"))]
    /\ pc' = [pc EXCEPT ![p] = "list_pods"]
    /\ UNCHANGED << settings, cluster_pvcs, cluster_pods, pods, pvc_pods,
                    pvc_pods_by_namespace, todo, warned, response >>

\* The PVC listing failing into an empty listing (unwrap_or_default)
ListPvcsErrIgnored(p) ==
    /\ pc[p] = "list_pvcs"
    /\ calls' = [calls EXCEPT ![p] = Append(@, Call("list_pvcs", "", "", FALSE, "error"))]
    /\ pc' = [pc EXCEPT ![p] = "list_pods"]
    /\ UNCHANGED << settings, cluster_pvcs, cluster_pods, sc_pvc_paths, pods, pvc_pods,
                    pvc_pods_by_namespace, todo, warned, response >>

\* pvcs_api.list(..).await? fails
ListPvcsErr(p) ==
    /\ pc[p] = "list_pvcs"
    /\ Fail(p, Call("list_pvcs", "", "", FALSE, "error"))
    /\ UNCHANGED << settings, cluster_pvcs, cluster_pods, sc_pvc_paths, pods, pvc_pods,
                    pvc_pods_by_namespace, todo, warned >>

\* What the handler does between the Pod listing and the first delete call
Selected(p, listing) == PvcPods(listing, sc_pvc_paths[p], ~settings.delete_uncontrolled)

\* pods_api.list(running_selector).await? succeeds; Pods are selected and grouped,
\* and the HashMap fixes an iteration order
ListPodsOk(p) ==
    /\ pc[p] = "list_pods"
    /\ LET listing == RunningPods(cluster_pods)
           selected == Selected(p, listing)
           map == GroupByNamespace(selected)
       IN /\ pods' = [pods EXCEPT ![p] = listing]
          /\ pvc_pods' = [pvc_pods EXCEPT ![p] = selected]
          /\ pvc_pods_by_namespace' = [pvc_pods_by_namespace EXCEPT ![p] = map]
          /\ \E order \in Orders(DOMAIN map) :
                todo' = [todo EXCEPT ![p] = Flatten(map, order)]
          /\ calls' = [calls EXCEPT ![p] = Append(@, Call("list_pods", "", "", FALSE, "ok"))]
          /\ IF selected = << >>
             THEN /\ pc' = [pc EXCEPT ![p] = "done"]
                  /\ response' = [response EXCEPT ![p] = "200"]
             ELSE /\ pc' = [pc EXCEPT ![p] = "delete"]
                  /\ UNCHANGED response
    /\ UNCHANGED << settings, cluster_pvcs, cluster_pods, sc_pvc_paths, warned >>

\* pods_api.list(running_selector).await? fails
ListPodsErr(p) ==
    /\ pc[p] = "list_pods"
    /\ Fail(p, Call("list_pods", "", "", FALSE, "error"))
    /\ UNCHANGED << settings, cluster_pvcs, cluster_pods, sc_pvc_paths, pods, pvc_pods,
                    pvc_pods_by_namespace, todo, warned >>

\* The loops move on after a delete call that returned Ok(_)
Advance(p) ==
    /\ todo' = [todo EXCEPT ![p] = Tail(@)]
    /\ IF Tail(todo[p]) = << >>
       THEN /\ pc' = [pc EXCEPT ![p] = "done"]
            /\ response' = [response EXCEPT ![p] = "200"]
       ELSE UNCHANGED << pc, response >>

\* DeleteParams::default(): the flag left out
DeleteParamsDefault(config) == [dry_run |-> FALSE]

\* let dp = DeleteParams { dry_run: state.settings.dry_run, ..Default::default() }
DeleteParams(config) == [dry_run |-> config.dry_run]

\* pods_ns_api.delete(&pod, &dp): the request sent for the Pod the loops are at
DeleteCall(p, result) ==
    Call("delete", Head(todo[p]).namespace, Head(todo[p]).name,
         DeleteParams(settings).dry_run, result)

\* A delete call that returned Ok(_) with the given result
DeleteReturned(p, result, removed, warn) ==
    /\ calls' = [calls EXCEPT ![p] = Append(@, DeleteCall(p, result))]
    /\ cluster_pods' = IF removed
                       THEN AfterDelete(cluster_pods, Head(todo[p]), DeleteParams(settings).dry_run)
                       ELSE cluster_pods
    /\ warned' = [warned EXCEPT ![p] = @ \/ warn]
    /\ Advance(p)
    /\ UNCHANGED << settings, cluster_pvcs, sc_pvc_paths, pods, pvc_pods, pvc_pods_by_namespace >>

\* Either::Left(_): the Pod is being deleted
DeleteLeft(p) ==
    /\ pc[p] = "delete"
    /\ PodExists(Head(todo[p]))
    /\ DeleteReturned(p, "left", TRUE, FALSE)

\* Either::Right(status), !status.is_failure()
DeleteStatusOk(p) ==
    /\ pc[p] = "delete"
    /\ PodExists(Head(todo[p]))
    /\ DeleteReturned(p, "status", TRUE, FALSE)

\* A failure status treated as an error
DeleteStatusFailureAborts(p) ==
    /\ pc[p] = "delete"
    /\ PodExists(Head(todo[p]))
    /\ Fail(p, DeleteCall(p, "failure"))
    /\ UNCHANGED << settings, cluster_pvcs, cluster_pods, sc_pvc_paths, pods, pvc_pods,
                    pvc_pods_by_namespace, todo, warned >>

\* Either::Right(status), status.is_failure(): warn! and go on
DeleteStatusFailure(p) ==
    /\ pc[p] = "delete"
    /\ PodExists(Head(todo[p]))
    /\ DeleteReturned(p, "failure", FALSE, TRUE)

\* pods_ns_api.delete(..).await? fails: a transport or API error, which for a Pod
\* that is gone is the API's not-found error
DeleteErr(p) ==
    /\ pc[p] = "delete"
    /\ \E result \in (IF PodExists(Head(todo[p])) THEN {"error"} ELSE {"error", "not_found"}) :
          Fail(p, DeleteCall(p, result))
    /\ UNCHANGED << settings, cluster_pvcs, cluster_pods, sc_pvc_paths, pods, pvc_pods,
                    pvc_pods_by_namespace, todo, warned >>

\* One step of request p
Handler(p) ==
    \/ ListPvcsOk(p)
    \/ ListPvcsErr(p)
    \/ ListPodsOk(p)
    \/ ListPodsErr(p)
    \/ DeleteLeft(p)
    \/ DeleteStatusOk(p)
    \/ DeleteStatusFailure(p)
    \/ DeleteErr(p)

\* The grouping loop of the handler alone, on the selection it is given
Group(p) ==
    /\ pc[p] = "group"
    /\ pvc_pods_by_namespace' = [pvc_pods_by_namespace EXCEPT ![p] = GroupByNamespace(pvc_pods[p])]
    /\ pc' = [pc EXCEPT ![p] = "grouped"]
    /\ UNCHANGED << settings, cluster_pvcs, cluster_pods, sc_pvc_paths, pods, pvc_pods,
                    todo, calls, warned, response >>

-----------------------------------------------------------------------------
(* Cluster objects *)

Pvc(namespace, name, spec) == [namespace |-> namespace, name |-> name, spec |-> spec]

PvcOfClass(namespace, name, class) ==
    Pvc(Some(namespace), Some(name), Some([storage_class_name |-> Some(class)]))

OtherVolume == [persistent_volume_claim |-> None]

PvcVolume(claim) == [persistent_volume_claim |-> Some([claim_name |-> claim])]

Pod(namespace, name, owners, spec, phase) ==
    [namespace |-> namespace, name |-> name, owner_references |-> owners,
     spec |-> spec, phase |-> phase]

NamespaceOf(i, k) == "n" \o ToString(((i - 1) % k) + 1)

\* A well-formed, controlled, Running Pod
ControlledPod(i, k, volumes) ==
    Pod(Some(NamespaceOf(i, k)), Some("p" \o ToString(i)), Some(<< "ReplicaSet" >>),
        Some([volumes |-> Some(volumes)]), "Running")

ControlledVolumes ==
    { << OtherVolume >>, << PvcVolume("d1") >>, << PvcVolume("d1"), PvcVolume("d2") >> }

RECURSIVE FastPvcs(_)
FastPvcs(k) ==
    IF k = 0 THEN << >>
    ELSE FastPvcs(k - 1) \o << PvcOfClass(NamespaceOf(k, k), "d1", "fast"),
                               PvcOfClass(NamespaceOf(k, k), "d2", "fast") >>

Settings(storage_class, delete_uncontrolled, dry_run) ==
    [storage_class |-> storage_class, delete_uncontrolled |-> delete_uncontrolled,
     dry_run |-> dry_run]

-----------------------------------------------------------------------------
(* Specifications *)

\* No request has made a call yet; those in `active` have been received
InitRequests(active, entry) ==
    /\ pc = [p \in Requests |-> IF p \in active THEN entry ELSE "off"]
    /\ sc_pvc_paths = [p \in Requests |-> << >>]
    /\ pods = [p \in Requests |-> << >>]
    /\ pvc_pods_by_namespace = [p \in Requests |-> EmptyMap]
    /\ todo = [p \in Requests |-> << >>]
    /\ calls = [p \in Requests |-> << >>]
    /\ warned = [p \in Requests |-> FALSE]
    /\ response = [p \in Requests |-> "none"]

\* One request against a cluster of controlled Pods
Init ==
    /\ settings \in { Settings(<< "fast" >>, u, d) : u, d \in BOOLEAN }
    /\ cluster_pvcs = FastPvcs(NumNamespaces)
    /\ cluster_pods \in { [i \in 1..NumPods |-> ControlledPod(i, NumNamespaces, v[i])] :
                            v \in [1..NumPods -> ControlledVolumes] }
    /\ pvc_pods = [p \in Requests |-> << >>]
    /\ InitRequests({1}, "list_pvcs")

Next == Handler(1)

Spec == Init /\ [][Next]_vars

\* One request against a cluster of one Pod and few PVCs of any shape
OwnerChoices == { None, Some(<< >>), Some(<< "ReplicaSet" >>) }

VolumeChoices == { OtherVolume, PvcVolume("d1"), PvcVolume("d2") }

PodSpecChoices ==
    { None, Some([volumes |-> None]) }
    \cup { Some([volumes |-> Some(v)]) : v \in SeqsUpTo(VolumeChoices, MaxVolumes) }

PodChoices ==
    { Pod(ns, Some("p1"), o, s, ph) :
        ns \in { Some("n1"), Some("n2") }, o \in OwnerChoices, s \in PodSpecChoices,
        ph \in { "Running", "Pending" } }
    \cup { Pod(None, Some("p1"), Some(<< "ReplicaSet" >>), Some([volumes |-> Some(<< PvcVolume("d1") >>)]), "Running"),
           Pod(Some("n1"), None, Some(<< "ReplicaSet" >>), Some([volumes |-> Some(<< PvcVolume("d1") >>)]), "Running") }

PvcSpecChoices ==
    { None, Some([storage_class_name |-> None]) }
    \cup { Some([storage_class_name |-> Some(c)]) : c \in { "fast", "fast-ssd" } }

\* PVC listings: n1/d1 and n1/d2, each present or not, in that order
PvcListChoices ==
    { (IF a = << >> THEN << >> ELSE << Pvc(Some("n1"), Some("d1"), Unwrap(a)) >>)
      \o (IF b = << >> THEN << >> ELSE << Pvc(Some("n1"), Some("d2"), Unwrap(b)) >>) :
        a, b \in { << >> } \cup { << s >> : s \in PvcSpecChoices } }

InitSelect ==
    /\ settings \in { Settings(sc, u, FALSE) :
                        sc \in { << "fast" >>, << "slow", "fast-ssd" >> }, u \in BOOLEAN }
    /\ cluster_pvcs \in PvcListChoices
    /\ cluster_pods \in { << pod >> : pod \in PodChoices }
    /\ pvc_pods = [p \in Requests |-> << >>]
    /\ InitRequests({1}, "list_pvcs")

SpecSelect == InitSelect /\ [][Next]_vars

\* The grouping alone, on any sequence of ObjectPaths
ObjectPathChoices == { [namespace |-> ns, name |-> n] : ns \in { "n1", "n2" }, n \in { "a", "b" } }

InitGroup ==
    /\ settings = Settings(<< "fast" >>, FALSE, FALSE)
    /\ cluster_pvcs = << >>
    /\ cluster_pods = << >>
    /\ \E input \in SeqsUpTo(ObjectPathChoices, MaxSelected) :
          pvc_pods = [p \in Requests |-> IF p = 1 THEN input ELSE << >>]
    /\ InitRequests({1}, "group")

NextGroup == Group(1)

SpecGroup == InitGroup /\ [][NextGroup]_vars

\* Two requests at once against a cluster of controlled Pods, one per namespace
InitConcurrent ==
    /\ settings \in { Settings(<< "fast" >>, FALSE, d) : d \in BOOLEAN }
    /\ cluster_pvcs = FastPvcs(NumPods)
    /\ cluster_pods \in { [i \in 1..NumPods |-> ControlledPod(i, NumPods, v[i])] :
                            v \in [1..NumPods -> { << OtherVolume >>, << PvcVolume("d1") >> }] }
    /\ pvc_pods = [p \in Requests |-> << >>]
    /\ InitRequests(Requests, "list_pvcs")

NextConcurrent == \E p \in Requests : Handler(p)

SpecConcurrent == InitConcurrent /\ [][NextConcurrent]_vars

-----------------------------------------------------------------------------
(* Properties *)

IsDelete(c) == c.op = "delete"

IsError(c) == c.result \in { "error", "not_found" }

\* The delete calls of request p for the Pod at `path`
DeletesOf(p, path) ==
    { i \in DOMAIN calls[p] :
        /\ IsDelete(calls[p][i])
        /\ calls[p][i].namespace = path.namespace
        /\ calls[p][i].name = path.name }

\* The Pod listing of request p has returned
Listed(p) == \E i \in DOMAIN calls[p] : calls[p][i].op = "list_pods" /\ calls[p][i].result = "ok"

\* The claim's own words: one of the Pod's volumes is a PVC volume whose claim name, with
\* the Pod's namespace, names a listed PVC whose storage class is present and configured
MountsQualifyingPvc(pod) ==
    /\ IsSome(pod.namespace)
    /\ IsSome(pod.spec)
    /\ IsSome(Unwrap(pod.spec).volumes)
    /\ \E v \in DOMAIN Unwrap(Unwrap(pod.spec).volumes), q \in DOMAIN cluster_pvcs :
        LET vol == Unwrap(Unwrap(pod.spec).volumes)[v]
            pvc == cluster_pvcs[q]
        IN /\ IsSome(vol.persistent_volume_claim)
           /\ pvc.namespace = pod.namespace
           /\ pvc.name = Some(Unwrap(vol.persistent_volume_claim).claim_name)
           /\ IsSome(pvc.spec)
           /\ IsSome(Unwrap(pvc.spec).storage_class_name)
           /\ \E k \in DOMAIN settings.storage_class :
                settings.storage_class[k] = Unwrap(Unwrap(pvc.spec).storage_class_name)

HasNoOwners(pod) == IsNone(pod.owner_references) \/ IsEmpty(Unwrap(pod.owner_references))

IsSelected(p, pod) ==
    \E i \in DOMAIN pvc_pods[p] : IsPod(pod, pvc_pods[p][i])

\* C1: a delete request is issued for a Pod only if the Running-pod listing returned it
\* and one of its volumes is a PVC volume whose claim name, in the Pod's own namespace,
\* is a listed PVC whose storage class is present and equal to a configured one.
C1_DeleteOnlyQualifying ==
    \A i \in DOMAIN calls[1] :
        IsDelete(calls[1][i]) =>
            \E j \in DOMAIN pods[1] :
                /\ IsPod(pods[1][j], calls[1][i])
                /\ pods[1][j].phase = "Running"
                /\ MountsQualifyingPvc(pods[1][j])

\* A Pod mounting two claims, one of them qualifying, has received its delete request
C1_Witness ==
    /\ \E i \in DOMAIN calls[1] : IsDelete(calls[1][i])
    /\ Len(cluster_pvcs) = 2
    /\ \E j \in DOMAIN pods[1] : Len(Unwrap(Unwrap(pods[1][j].spec).volumes)) = 2

\* C2: with delete_uncontrolled = false, a Pod without owner references is never selected
\* and never receives a delete request, whatever it mounts.
C2_UncontrolledKept ==
    ~settings.delete_uncontrolled =>
        \A j \in DOMAIN pods[1] :
            HasNoOwners(pods[1][j]) =>
                /\ ~IsSelected(1, pods[1][j])
                /\ \A i \in DOMAIN calls[1] :
                      IsDelete(calls[1][i]) => ~IsPod(pods[1][j], calls[1][i])

\* The request is over, and left alone a listed Pod with an empty owner list that
\* mounts a qualifying PVC
C2_Witness ==
    /\ ~settings.delete_uncontrolled
    /\ response[1] = "200"
    /\ \E j \in DOMAIN pods[1] :
          /\ IsSome(pods[1][j].owner_references)
          /\ IsEmpty(Unwrap(pods[1][j].owner_references))
          /\ IsSome(pods[1][j].name)
          /\ MountsQualifyingPvc(pods[1][j])

\* C3: every listed Pod with a namespace and a name that mounts a qualifying PVC is
\* selected when it has an owner reference or delete_uncontrolled is true; with
\* delete_uncontrolled = true this includes the Pod whose owner-reference list is absent.
C3_QualifyingSelected ==
    Listed(1) =>
        \A j \in DOMAIN pods[1] :
            ( /\ IsSome(pods[1][j].namespace)
              /\ IsSome(pods[1][j].name)
              /\ MountsQualifyingPvc(pods[1][j])
              /\ (~HasNoOwners(pods[1][j]) \/ settings.delete_uncontrolled) )
            => IsSelected(1, pods[1][j])

\* C4: with distinct Pod identities and no failing call, every selected Pod receives
\* exactly one delete request before the handler returns: no Pod is selected twice, and
\* the Pods of every namespace bucket are attempted.
C4_ExactlyOneDelete ==
    /\ \A i, j \in DOMAIN pvc_pods[1] : pvc_pods[1][i] = pvc_pods[1][j] => i = j
    /\ \A i \in DOMAIN pvc_pods[1] : Cardinality(DeletesOf(1, pvc_pods[1][i])) <= 1
    /\ response[1] = "200" =>
          \A i \in DOMAIN pvc_pods[1] : Cardinality(DeletesOf(1, pvc_pods[1][i])) = 1

\* The handler returned success for two buckets, one Pod mounting two qualifying PVCs
C4_Witness ==
    /\ response[1] = "200"
    /\ Cardinality(DOMAIN pvc_pods_by_namespace[1]) >= 2
    /\ \E j \in DOMAIN pods[1] :
          /\ IsSelected(1, pods[1][j])
          /\ Unwrap(Unwrap(pods[1][j].spec).volumes) = << PvcVolume("d1"), PvcVolume("d2") >>
          /\ Cardinality({ q \in DOMAIN cluster_pvcs :
                             cluster_pvcs[q].namespace = pods[1][j].namespace }) = 2

\* The names of `paths` that are in namespace ns, in order
NamesIn(paths, ns) ==
    LET InNs(path) == path.namespace = ns
        kept == SelectSeq(paths, InNs)
    IN [i \in 1..Len(kept) |-> kept[i].name]

Occurrences(paths, path) == Cardinality({ i \in DOMAIN paths : paths[i] = path })

OccurrencesInMap(map, path) ==
    IF path.namespace \in DOMAIN map
    THEN Cardinality({ i \in DOMAIN map[path.namespace] : map[path.namespace][i] = path.name })
    ELSE 0

\* C5: grouping is a lossless partition: the (namespace, name) pairs of the map are, as a
\* multiset, those of the input; each name is in the bucket of its namespace; no bucket
\* is empty; a bucket keeps the input order.
C5_GroupingLossless ==
    pc[1] = "grouped" =>
        LET map == pvc_pods_by_namespace[1]
            input == pvc_pods[1]
        IN /\ \A path \in ObjectPathChoices :
                 OccurrencesInMap(map, path) = Occurrences(input, path)
           /\ DOMAIN map = { input[i].namespace : i \in DOMAIN input }
           /\ \A ns \in DOMAIN map : map[ns] # << >> /\ map[ns] = NamesIn(input, ns)

\* Three paths, one of them twice, grouped into two buckets
C5_Witness ==
    /\ pc[1] = "grouped"
    /\ Len(pvc_pods[1]) = 3
    /\ pvc_pods[1][1] = pvc_pods[1][3]
    /\ Cardinality(DOMAIN pvc_pods_by_namespace[1]) = 2

\* The Pods of the delete calls of request p, in call order
DeleteTargets(p) ==
    LET made == SelectSeq(calls[p], IsDelete)
    IN [i \in 1..Len(made) |-> [namespace |-> made[i].namespace, name |-> made[i].name]]

IsPrefix(s, t) == Len(s) <= Len(t) /\ SubSeq(t, 1, Len(s)) = s

\* C6: every delete request carries the configured dry_run; and whatever dry_run is, the
\* Pods attempted are the buckets' Pods in the loops' order, a failure status is what
\* is warned about, and an error is what makes the response 500.
C6_DryRunForwarded ==
    /\ \A i \in DOMAIN calls[1] : IsDelete(calls[1][i]) => calls[1][i].dry_run = settings.dry_run
    /\ \E order \in Orders(DOMAIN pvc_pods_by_namespace[1]) :
          LET plan == Flatten(pvc_pods_by_namespace[1], order)
          IN /\ IsPrefix(DeleteTargets(1), plan)
             /\ (Listed(1) /\ response[1] = "200") => DeleteTargets(1) = plan
    /\ warned[1] <=> \E i \in DOMAIN calls[1] : calls[1][i].result = "failure"
    /\ response[1] = "500" <=> \E i \in DOMAIN calls[1] : IsError(calls[1][i])

\* A dry run went through three Pods
C6_Witness ==
    /\ settings.dry_run
    /\ response[1] = "200"
    /\ Len(DeleteTargets(1)) = 3
    /\ Len(cluster_pods) = 3

\* C7: once a delete call returns an error, no further call is made (not for the same
\* Pod, not for the rest of the bucket, not for a later bucket) and the response is 500.
C7_FailFast ==
    \A i \in DOMAIN calls[1] :
        (IsDelete(calls[1][i]) /\ IsError(calls[1][i])) =>
            /\ i = Len(calls[1])
            /\ pc[1] = "done"
            /\ response[1] = "500"

\* The first delete failed with a Pod of its bucket and a Pod of a later bucket left
C7_Witness ==
    /\ Len(calls[1]) = 3
    /\ IsDelete(calls[1][3]) /\ IsError(calls[1][3])
    /\ Len(todo[1]) = 3
    /\ todo[1][2].namespace = todo[1][1].namespace
    /\ todo[1][3].namespace # todo[1][1].namespace

NoErrorCall(p) == \A i \in DOMAIN calls[p] : ~IsError(calls[p][i])

\* C8: a delete call answered by a failure status does not end the request: the loops
\* go on to the next Pod, and a request in which no call returned an error ends with
\* 200 after attempting every selected Pod.
C8_StatusFailureContinues ==
    /\ \A i \in DOMAIN calls[1] :
          calls[1][i].result = "failure" =>
              IF i < Len(calls[1]) THEN IsDelete(calls[1][i + 1])
              ELSE IF todo[1] = << >> THEN pc[1] = "done" /\ response[1] = "200"
              ELSE pc[1] = "delete" /\ response[1] = "none"
    /\ (pc[1] = "done" /\ NoErrorCall(1)) =>
          /\ response[1] = "200"
          /\ \A i \in DOMAIN pvc_pods[1] : DeletesOf(1, pvc_pods[1][i]) # {}

\* The first delete was answered by a failure status, the Pod is still there, and the
\* rest of its bucket and a later bucket were attempted before the 200
C8_Witness ==
    /\ response[1] = "200"
    /\ ~settings.dry_run
    /\ Len(calls[1]) = 5
    /\ calls[1][3].result = "failure"
    /\ PodExists(calls[1][3])
    /\ calls[1][4].namespace = calls[1][3].namespace
    /\ calls[1][5].namespace # calls[1][3].namespace

\* C9: the PVC listing is the first call, the Pod listing the second, made only after
\* the PVC listing succeeded, and delete calls come only after both succeeded; a failed
\* listing is the request's last call: no delete call, the Pods untouched, response 500.
C9_ListingsFirst ==
    /\ \A i \in DOMAIN calls[1] :
          /\ calls[1][i].op = "list_pvcs" <=> i = 1
          /\ calls[1][i].op = "list_pods" <=> i = 2
          /\ i > 1 => calls[1][1].result = "ok"
          /\ i > 2 => calls[1][2].result = "ok"
    /\ \A i \in DOMAIN calls[1] :
          (~IsDelete(calls[1][i]) /\ IsError(calls[1][i])) =>
              /\ i = Len(calls[1])
              /\ pc[1] = "done"
              /\ response[1] = "500"
              /\ todo[1] = << >>
              /\ Len(cluster_pods) = NumPods

\* The PVC listing failed and the request ended there
C9_Witness ==
    /\ Len(calls[1]) = 1
    /\ calls[1][1].op = "list_pvcs"
    /\ calls[1][1].result = "error"
    /\ response[1] = "500"

\* C10: with no error other than not-found for a Pod that is already gone, once two
\* concurrent requests have both ended, every Pod either of them selected is deleted.
C10_ConcurrentDeleteAll ==
    ( /\ \A p \in Requests : pc[p] = "done"
      /\ ~settings.dry_run
      /\ \A p \in Requests : \A i \in DOMAIN calls[p] :
            calls[p][i].result \in { "ok", "left", "status", "not_found" } )
    => \A p \in Requests : \A i \in DOMAIN pvc_pods[p] : ~PodExists(pvc_pods[p][i])

====
